---- MODULE Spec2Model ----
(***************************************************************************)
(* A model of server.js: the orders resolver (FilterInput -> MongoDB       *)
(* query), generateGraphQLQuery (completion text -> sanitized query        *)
(* string) and the HTTP handlers POST /generate-query, POST /fetch-orders  *)
(* and the /graphql mount.                                                 *)
(*                                                                         *)
(* JavaScript objects are functions whose DOMAIN is the set of keys that   *)
(* are set: reading a missing key is undefined, and assigning a property   *)
(* of undefined throws a TypeError.  Strings are sequences of tokens.      *)
(***************************************************************************)
EXTENDS Integers, Sequences, FiniteSets, TLC

VARIABLES
    route,          \* the route the request in hand was sent to
    body,           \* req.body of the request to /generate-query or /fetch-orders
    pc,             \* where the handling of the request stands
    apiCalls,       \* number of POSTs made to the completion API
    gqlCalls,       \* number of POSTs made to http://localhost:PORT/graphql
    completion,     \* how the POST to the completion API settled
    graphqlQuery,   \* what generateGraphQLQuery returned (null or a string)
    raised,         \* TRUE when generateGraphQLQuery threw to its caller
    logs,           \* console.log / console.error lines, in order
    args,           \* the argument object of resolvers.orders
    query,          \* the MongoDB query object the resolver built
    storeCalls,     \* the queries handed to Order.find, in order
    resolved,       \* outcome of resolvers.orders
    gqlReply,       \* the reply of the /graphql endpoint
    responses       \* the HTTP responses sent for the request, in order

vars == <<route, body, pc, apiCalls, gqlCalls, completion, graphqlQuery, raised, logs,
          args, query, storeCalls, resolved, gqlReply, responses>>

(***************************************************************************)
(* Bounds of the model.                                                    *)
(***************************************************************************)
MaxDay == 2         \* date strings name the days 1..MaxDay
MaxPat == 1         \* longest client_name / item_name filter string
MaxLen == 5         \* longest completion text, in tokens

EmptyObj == <<>>    \* the JavaScript object {}

Has(obj, k) == k \in DOMAIN obj

(***************************************************************************)
(* Date strings and new Date(s).  A date string is the empty string, a     *)
(* text that is no date ("not-a-date"), or the ISO text of day n.          *)
(***************************************************************************)
EmptyString == [text |-> "", day |-> 0]
NotADate == [text |-> "not-a-date", day |-> 0]
IsoDate(n) == [text |-> "iso", day |-> n]
DateStrings == {EmptyString, NotADate} \cup {IsoDate(n) : n \in 1..MaxDay}

\* new Date(s): an Invalid Date (time NaN) when s does not parse
NewDate(s) ==
    IF s.text = "iso" THEN [valid |-> TRUE, time |-> s.day]
    ELSE [valid |-> FALSE, time |-> 0]

\* JavaScript truthiness of a date-string value: "" is falsy
TruthyDateString(s) == s.text # ""

\* JavaScript truthiness of a string held as a sequence: "" is falsy
TruthyString(s) == Len(s) > 0

(***************************************************************************)
(* Filter strings and names.                                               *)
(***************************************************************************)
PatChars == {"a", "."}
NameChars == {"a", "A", "b", "."}

SeqsUpTo(S, n) == UNION {[1..k -> S] : k \in 0..n}

Patterns == SeqsUpTo(PatChars, MaxPat)
Statuses == {"shipped", "cancelled", "open"}
StatusLists == {{}, {"shipped", "cancelled"}}

(***************************************************************************)
(* FilterInput: every field optional.                                      *)
(***************************************************************************)
Opt(k, V) == {EmptyObj} \cup {k :> v : v \in V}

FilterInputs ==
    {st @@ cn @@ cs @@ ce @@ ds @@ de @@ it :
        st \in Opt("status", StatusLists),
        cn \in Opt("client_name", Patterns),
        cs \in Opt("created_at_start", DateStrings),
        ce \in Opt("created_at_end", DateStrings),
        ds \in Opt("closed_at_start", DateStrings),
        de \in Opt("closed_at_end", DateStrings),
        it \in Opt("item_name", Patterns)}

\* orders(filter: FilterInput): the filter argument may be left out
ArgsAll == {EmptyObj} \cup {"filter" :> f : f \in FilterInputs}

(***************************************************************************)
(* resolvers.orders, lines 85-136.  Each step takes the state of the run   *)
(* so far, [threw, query], and gives the next; once an assignment has      *)
(* thrown, the rest of the body is skipped.                                *)
(***************************************************************************)
Building(q) == [threw |-> FALSE, query |-> q]
Thrown == [threw |-> TRUE, query |-> EmptyObj]

\* obj[k] = v
Put(obj, k, v) == (k :> v) @@ obj

\* if (filter.status) query.status = { $in: filter.status }   (an array is truthy)
SetStatus(b, f) ==
    IF b.threw \/ ~Has(f, "status") THEN b
    ELSE Building(Put(b.query, "status", ("$in" :> f["status"])))

\* if (filter[key]) query[field] = { $regex: filter[key], $options: "i" }
SetRegex(b, f, key, field) ==
    IF b.threw \/ ~Has(f, key) \/ ~TruthyString(f[key]) THEN b
    ELSE Building(Put(b.query, field,
                      ("$regex" :> f[key]) @@ ("$options" :> <<"i">>)))

\* if (filter[key]) query[field] = { $gte: new Date(filter[key]) }
SetGte(b, f, key, field) ==
    IF b.threw \/ ~Has(f, key) \/ ~TruthyDateString(f[key]) THEN b
    ELSE Building(Put(b.query, field, ("$gte" :> NewDate(f[key]))))

\* the overwrite slip: query[field] = { $lte: new Date(filter[key]) }
SetLteOverwrite(b, f, key, field) ==
    IF b.threw \/ ~Has(f, key) \/ ~TruthyDateString(f[key]) THEN b
    ELSE Building(Put(b.query, field, ("$lte" :> NewDate(f[key]))))

\* if (filter[key]) query[field].$lte = new Date(filter[key])
\* query[field] is undefined unless the start bound set it: TypeError
SetLte(b, f, key, field) ==
    IF b.threw \/ ~Has(f, key) \/ ~TruthyDateString(f[key]) THEN b
    ELSE IF ~Has(b.query, field) THEN Thrown
    ELSE Building(Put(b.query, field,
                      Put(b.query[field], "$lte", NewDate(f[key]))))

\* lines 86-132: const query = {}; if (filter) { ... }
BuildQuery(a) ==
    IF ~Has(a, "filter") THEN Building(EmptyObj)
    ELSE LET f == a["filter"]
             b0 == Building(EmptyObj)
             b1 == SetStatus(b0, f)
             b2 == SetRegex(b1, f, "client_name", "client_name")
             b3 == SetGte(b2, f, "created_at_start", "created_at")
             b4 == SetLte(b3, f, "created_at_end", "created_at")
             b5 == SetGte(b4, f, "closed_at_start", "closed_at")
             b6 == SetLte(b5, f, "closed_at_end", "closed_at")
             b7 == SetRegex(b6, f, "item_name", "items.name")
         IN  b7

(***************************************************************************)
(* The store: Order documents and what Order.find(query) matches.          *)
(***************************************************************************)
Times == 0..(MaxDay + 1)

Item(n) == [name |-> n]

\* the documents of the orders collection; closed_at is unset until an order closes
StoredOrders ==
    { [client_name |-> <<"A", "b">>, status |-> "shipped", created_at |-> 1,
       closed_at |-> 2, items |-> <<Item(<<"a">>), Item(<<"b">>)>>],
      [client_name |-> <<"b", ".">>, status |-> "cancelled", created_at |-> 0,
       closed_at |-> MaxDay + 1, items |-> <<Item(<<".">>)>>],
      [client_name |-> <<"b">>, status |-> "open", created_at |-> MaxDay,
       items |-> <<>>],
      [client_name |-> <<"a">>, status |-> "open", created_at |-> MaxDay + 1,
       items |-> <<Item(<<"b", "A">>)>>] }

Lower(c) == IF c = "A" THEN "a" ELSE c

\* one pattern character against one subject character, under option "i":
\* a dot is the regular-expression wildcard, every other character is itself
RegexCharMatches(p, c) == p = "." \/ Lower(p) = Lower(c)

\* { $regex: pat, $options: "i" }: an unanchored match anywhere in the subject
RegexTest(pat, subject) ==
    \E i \in 0..(Len(subject) - Len(pat)) :
        \A j \in 1..Len(pat) : RegexCharMatches(pat[j], subject[i + j])

\* { $gte: d, $lte: d' } on a timestamp; no comparison with an Invalid Date holds
RangeMatches(r, o, field) ==
    /\ Has(o, field)
    /\ Has(r, "$gte") => (r["$gte"].valid /\ o[field] >= r["$gte"].time)
    /\ Has(r, "$lte") => (r["$lte"].valid /\ o[field] <= r["$lte"].time)

\* the condition each key of a query object puts on a document; no key, no condition
MatchesStatus(q, o) == Has(q, "status") => o.status \in q["status"]["$in"]

MatchesClientName(q, o) ==
    Has(q, "client_name") => RegexTest(q["client_name"]["$regex"], o.client_name)

MatchesCreatedAt(q, o) ==
    Has(q, "created_at") => RangeMatches(q["created_at"], o, "created_at")

MatchesClosedAt(q, o) ==
    Has(q, "closed_at") => RangeMatches(q["closed_at"], o, "closed_at")

\* a condition on "items.name" holds when some element of items meets it
MatchesItemsName(q, o) ==
    Has(q, "items.name") =>
        \E i \in 1..Len(o.items) : RegexTest(q["items.name"]["$regex"], o.items[i].name)

\* the documents Order.find(q) selects: every key of q is a condition
Matches(q, o) ==
    /\ MatchesStatus(q, o)
    /\ MatchesClientName(q, o)
    /\ MatchesCreatedAt(q, o)
    /\ MatchesClosedAt(q, o)
    /\ MatchesItemsName(q, o)

NoCompletion == [kind |-> "none", text |-> <<>>]

Pending == [kind |-> "pending", error |-> "", orders |-> {}]
Threw(e) == [kind |-> "throw", error |-> e, orders |-> {}]
Returned(os) == [kind |-> "orders", error |-> "", orders |-> os]

NoReply == [status |-> 0, errors |-> FALSE, hasOrders |-> FALSE, orders |-> {}]

(***************************************************************************)
(* resolvers.orders as steps of the /graphql execution.                    *)
(***************************************************************************)
\* lines 85-135 up to the await: build the query, log it, call Order.find;
\* a TypeError thrown while building rejects the resolver's promise
orders_call ==
    /\ pc = "resolve"
    /\ LET b == BuildQuery(args)
       IN  IF b.threw
           THEN /\ resolved' = Threw("TypeError")
                /\ pc' = "resolved"
                /\ UNCHANGED <<query, storeCalls, logs>>
           ELSE /\ query' = b.query
                /\ logs' = Append(logs, "Generated MongoDB query:")
                /\ storeCalls' = Append(storeCalls, b.query)
                /\ pc' = "find"
                /\ UNCHANGED resolved
    /\ UNCHANGED <<completion, route, body, apiCalls, gqlCalls, graphqlQuery, raised, args,
                   gqlReply, responses>>

\* line 135: Order.find resolves with the matching documents
find_returns ==
    /\ pc = "find"
    /\ resolved' = Returned({o \in StoredOrders : Matches(query, o)})
    /\ pc' = "resolved"
    /\ UNCHANGED <<completion, route, body, apiCalls, gqlCalls, graphqlQuery, raised, logs,
                   args, query, storeCalls, gqlReply, responses>>

\* line 135: Order.find rejects (store unavailable, or a value it cannot cast)
find_fails ==
    /\ pc = "find"
    /\ resolved' = Threw("StoreError")
    /\ pc' = "resolved"
    /\ UNCHANGED <<completion, route, body, apiCalls, gqlCalls, graphqlQuery, raised, logs,
                   args, query, storeCalls, gqlReply, responses>>

\* lines 143-150 with line 76: orders is a nullable field, so a rejected
\* resolver gives 200 with { errors: [...], data: { orders: null } }
GraphqlEnvelope(r) ==
    IF r.kind = "throw"
    THEN [status |-> 200, errors |-> TRUE, hasOrders |-> FALSE, orders |-> {}]
    ELSE [status |-> 200, errors |-> FALSE, hasOrders |-> TRUE, orders |-> r.orders]

\* the /graphql endpoint answers: to the client that posted the document, or to
\* the axios.post of /fetch-orders
graphql_reply ==
    /\ pc = "resolved"
    /\ gqlReply' = GraphqlEnvelope(resolved)
    /\ IF route = "/graphql"
       THEN /\ responses' = Append(responses, [status |-> gqlReply'.status,
                                               error |-> "", kind |-> "graphql"])
            /\ pc' = "responded"
       ELSE /\ pc' = "replied"
            /\ UNCHANGED responses
    /\ UNCHANGED <<completion, route, body, apiCalls, gqlCalls, graphqlQuery, raised, logs,
                   args, query, storeCalls, resolved>>

NullQuery == [null |-> TRUE, text |-> <<>>]

\* a POST /graphql request whose document calls orders(filter: ...)
InitOrders ==
    /\ route = "/graphql"
    /\ body = EmptyObj
    /\ pc = "resolve"
    /\ apiCalls = 0
    /\ gqlCalls = 0
    /\ completion = NoCompletion
    /\ graphqlQuery = NullQuery
    /\ raised = FALSE
    /\ logs = <<>>
    /\ args \in ArgsAll
    /\ query = EmptyObj
    /\ storeCalls = <<>>
    /\ resolved = Pending
    /\ gqlReply = NoReply
    /\ responses = <<>>

NextOrders == orders_call \/ find_returns \/ find_fails \/ graphql_reply

SpecOrders == InitOrders /\ [][NextOrders]_vars

(***************************************************************************)
(* Properties of resolvers.orders, checked under SpecOrders.               *)
(***************************************************************************)
Filter == args["filter"]

\* the resolver has run its body (it has thrown or has called Order.find)
Translated == pc # "resolve"

\* the resolver handed a query to the store
QueryProduced == storeCalls # <<>>

IsDate(s) == s.text = "iso"

\* s occurs in subject as a contiguous substring, letter case ignored
ContainsIgnoringCase(subject, s) ==
    \E i \in 0..(Len(subject) - Len(s)) :
        \A j \in 1..Len(s) : Lower(s[j]) = Lower(subject[i + j])

EndOnly(f, start, end) == Has(f, end) /\ IsDate(f[end]) /\ ~Has(f, start)

UpperBoundOnly(q, field, d) ==
    /\ Has(q, field)
    /\ DOMAIN q[field] = {"$lte"}
    /\ q[field]["$lte"] = NewDate(d)

\* C1: when a filter holds an end bound (a date) and not the matching start
\* bound, the resolver does not throw and the query's only condition on that
\* timestamp is field <= end.
C1_EndOnlyGivesUpperBound ==
    (Translated /\ Has(args, "filter")) =>
        /\ EndOnly(Filter, "created_at_start", "created_at_end") =>
              /\ resolved.error # "TypeError"
              /\ QueryProduced
              /\ UpperBoundOnly(query, "created_at", Filter["created_at_end"])
        /\ EndOnly(Filter, "closed_at_start", "closed_at_end") =>
              /\ resolved.error # "TypeError"
              /\ QueryProduced
              /\ UpperBoundOnly(query, "closed_at", Filter["closed_at_end"])

BothBounds(f, start, end) ==
    Has(f, start) /\ IsDate(f[start]) /\ Has(f, end) /\ IsDate(f[end])

\* the query's condition on field is the one range [start, end], both ends included
OneInclusiveRange(q, f, start, end, field) ==
    /\ Has(q, field)
    /\ DOMAIN q[field] = {"$gte", "$lte"}
    /\ q[field]["$gte"] = NewDate(f[start])
    /\ q[field]["$lte"] = NewDate(f[end])
    /\ \A t \in Times :
          RangeMatches(q[field], (field :> t), field)
              <=> (f[start].day <= t /\ t <= f[end].day)
    /\ ~RangeMatches(q[field], EmptyObj, field)

\* C2: when a filter holds both bounds of a timestamp (both dates), the query
\* the resolver produces keeps them as one range on that field: a timestamp
\* matches exactly when start <= t <= end, the two ends included, and the
\* orders found all lie in the range.
C2_BothBoundsOneRange ==
    (QueryProduced /\ Has(args, "filter")) =>
        /\ BothBounds(Filter, "created_at_start", "created_at_end") =>
              /\ OneInclusiveRange(query, Filter, "created_at_start",
                                   "created_at_end", "created_at")
              /\ \A o \in resolved.orders :
                    /\ Filter["created_at_start"].day <= o.created_at
                    /\ o.created_at <= Filter["created_at_end"].day
        /\ BothBounds(Filter, "closed_at_start", "closed_at_end") =>
              /\ OneInclusiveRange(query, Filter, "closed_at_start",
                                   "closed_at_end", "closed_at")
              /\ \A o \in resolved.orders :
                    /\ Has(o, "closed_at")
                    /\ Filter["closed_at_start"].day <= o.closed_at
                    /\ o.closed_at <= Filter["closed_at_end"].day

\* C2 witness: bounds 1 and MaxDay on created_at; the store answered with the
\* orders created at 1 and at MaxDay and without those created at 0 and MaxDay + 1
C2_Witness ==
    /\ pc = "resolved"
    /\ resolved.kind = "orders"
    /\ Has(args, "filter")
    /\ DOMAIN Filter = {"created_at_start", "created_at_end"}
    /\ Filter["created_at_start"] = IsoDate(1)
    /\ Filter["created_at_end"] = IsoDate(MaxDay)
    /\ {o.created_at : o \in resolved.orders} = {1, MaxDay}
    /\ {o.created_at : o \in StoredOrders \ resolved.orders} = {0, MaxDay + 1}

BoundFields == {"created_at_start", "created_at_end", "closed_at_start", "closed_at_end"}

\* C3: when a date bound of the filter holds a text that is no date, the
\* resolver fails with InvalidFilterError and hands no query to the store.
C3_MalformedDateFails ==
    (Translated /\ Has(args, "filter")
        /\ \E k \in BoundFields : Has(Filter, k) /\ Filter[k] = NotADate) =>
        /\ ~QueryProduced
        /\ resolved = Threw("InvalidFilterError")

\* the condition the FilterInput field k stands for
FieldCondition(f, k, o) ==
    CASE k = "status" -> o.status \in f[k]
      [] k = "client_name" -> ContainsIgnoringCase(o.client_name, f[k])
      [] k = "item_name" ->
             \E i \in 1..Len(o.items) : ContainsIgnoringCase(o.items[i].name, f[k])
      [] k = "created_at_start" -> f[k].day <= o.created_at
      [] k = "created_at_end" -> o.created_at <= f[k].day
      [] k = "closed_at_start" -> Has(o, "closed_at") /\ f[k].day <= o.closed_at
      [] k = "closed_at_end" -> Has(o, "closed_at") /\ o.closed_at <= f[k].day

\* every value of the filter is a plain one: dates parse, strings are not
\* empty and hold no regular-expression character
PlainValues(f) ==
    /\ \A k \in BoundFields \cap DOMAIN f : IsDate(f[k])
    /\ \A k \in {"client_name", "item_name"} \cap DOMAIN f :
          f[k] # <<>> /\ \A j \in DOMAIN f[k] : f[k][j] # "."

\* C4: the resolver produces a query that is the AND of the conditions of
\* exactly the fields present: an order matches it exactly when it meets the
\* condition of every field present; with no filter, or no field, the query
\* is empty and matches every order.
C4_QueryIsAndOfPresentFields ==
    (Translated /\ (Has(args, "filter") => PlainValues(Filter))) =>
        /\ QueryProduced
        /\ \A o \in StoredOrders :
              Matches(query, o) <=>
                  (Has(args, "filter") =>
                      \A k \in DOMAIN Filter : FieldCondition(Filter, k, o))
        /\ (~Has(args, "filter") \/ Filter = EmptyObj) => query = EmptyObj

\* C5: a non-empty client_name (item_name) filter string s makes the query
\* accept an order exactly when s occurs, letter case ignored, as a literal
\* substring of the order's client_name (of the name of one of its items).
C5_NamesMatchLiterally ==
    (QueryProduced /\ Has(args, "filter")) =>
        /\ (Has(Filter, "client_name") /\ Filter["client_name"] # <<>>) =>
              \A o \in StoredOrders :
                  MatchesClientName(query, o)
                      <=> ContainsIgnoringCase(o.client_name, Filter["client_name"])
        /\ (Has(Filter, "item_name") /\ Filter["item_name"] # <<>>) =>
              \A o \in StoredOrders :
                  MatchesItemsName(query, o)
                      <=> \E i \in 1..Len(o.items) :
                             ContainsIgnoringCase(o.items[i].name, Filter["item_name"])


(***************************************************************************)
(* Completion texts.  A text is a sequence of tokens: a backtick, a line   *)
(* break, a space, the word "graphql", or "q" for any other character.     *)
(***************************************************************************)
Backtick == "BACKTICK"
Tokens == {Backtick, "\n", " ", "graphql", "q"}

Fence == <<Backtick, Backtick, Backtick>>
FenceGraphql == <<Backtick, Backtick, Backtick, "graphql">>

\* the completion the prompt tends to get: a fence tagged graphql, a line
\* break, the query, a line break, a closing fence
FencedCompletion == FenceGraphql \o <<"\n", "q", "\n">> \o Fence

\* a completion that fences nothing: a fence, a line break, a closing fence
EmptyFence == Fence \o <<"\n">> \o Fence

Texts == SeqsUpTo(Tokens, MaxLen) \cup {FencedCompletion, EmptyFence}

IsSpace(t) == t \in {" ", "\n"}

RECURSIVE TrimStart(_)
TrimStart(s) == IF s # <<>> /\ IsSpace(Head(s)) THEN TrimStart(Tail(s)) ELSE s

RECURSIVE TrimEnd(_)
TrimEnd(s) ==
    IF s # <<>> /\ IsSpace(s[Len(s)]) THEN TrimEnd(SubSeq(s, 1, Len(s) - 1)) ELSE s

\* String.prototype.trim
Trim(s) == TrimEnd(TrimStart(s))

StartsWith(s, pat) == Len(s) >= Len(pat) /\ SubSeq(s, 1, Len(pat)) = pat

\* s.replace(/pat/g, ""): every match, left to right, matches not overlapping
RECURSIVE ReplaceAllEmpty(_, _)
ReplaceAllEmpty(s, pat) ==
    IF s = <<>> THEN <<>>
    ELSE IF StartsWith(s, pat)
         THEN ReplaceAllEmpty(SubSeq(s, Len(pat) + 1, Len(s)), pat)
         ELSE <<Head(s)>> \o ReplaceAllEmpty(Tail(s), pat)

\* s.replace(/\n/g, " ")
NewlinesToSpaces(s) == [i \in DOMAIN s |-> IF s[i] = "\n" THEN " " ELSE s[i]]

\* lines 201-208: content.trim(), then the three replaces
Sanitize(content) ==
    NewlinesToSpaces(ReplaceAllEmpty(ReplaceAllEmpty(Trim(content), FenceGraphql), Fence))

(***************************************************************************)
(* generateGraphQLQuery, lines 171-215.                                    *)
(***************************************************************************)
\* how the POST to the completion API settles
CompletionOutcomes ==
    { [kind |-> "transport", text |-> <<>>],    \* no response: axios.post rejects
      [kind |-> "api", text |-> <<>>],          \* non-2xx response: axios.post rejects
      [kind |-> "nopath", text |-> <<>>] }      \* 2xx, no choices[0].message.content
    \cup {[kind |-> "text", text |-> t] : t \in Texts}

StringQuery(t) == [null |-> FALSE, text |-> t]

\* the catch clause left out: every failure escapes to the caller
BridgeSettlesUncaught(o) ==
    IF o.kind = "text"
    THEN [raised |-> FALSE, value |-> StringQuery(Sanitize(o.text)), log |-> <<>>]
    ELSE [raised |-> TRUE, value |-> NullQuery, log |-> <<>>]

\* lines 200-214: the cleaned text, or, from the catch clause, a log line and null
BridgeSettles(o) ==
    IF o.kind = "text"
    THEN [raised |-> FALSE, value |-> StringQuery(Sanitize(o.text)), log |-> <<>>]
    ELSE [raised |-> FALSE, value |-> NullQuery,
          log |-> <<"Error generating GraphQL query:">>]

\* !graphqlQuery: null and "" are falsy
Falsy(g) == g.null \/ g.text = <<>>

(***************************************************************************)
(* The handlers of POST /generate-query and POST /fetch-orders.            *)
(***************************************************************************)
UserInputs == {"", "orders that are shipped"}
Bodies == {EmptyObj} \cup {"userInput" :> u : u \in UserInputs}

\* the guard the handlers never take
MissingUserInputNever(b) == FALSE

\* !userInput: undefined and "" are falsy
MissingUserInput(b) == ~Has(b, "userInput") \/ b["userInput"] = ""

Response(st, err) == [status |-> st, error |-> err, kind |-> "error"]

\* lines 152-159: 400 at once, or call generateGraphQLQuery, which posts to the API
generate_query_handler ==
    /\ pc = "start"
    /\ route = "/generate-query"
    /\ IF MissingUserInput(body)
       THEN /\ responses' = Append(responses, Response(400, "User input is required"))
            /\ pc' = "responded"
            /\ UNCHANGED apiCalls
       ELSE /\ apiCalls' = apiCalls + 1
            /\ pc' = "completion"
            /\ UNCHANGED responses
    /\ UNCHANGED <<completion, route, body, gqlCalls, graphqlQuery, raised, logs, args, query,
                   storeCalls, resolved, gqlReply>>

\* lines 217-226: 400 at once, or call generateGraphQLQuery, which posts to the API
fetch_orders_handler ==
    /\ pc = "start"
    /\ route = "/fetch-orders"
    /\ IF MissingUserInput(body)
       THEN /\ responses' = Append(responses, Response(400, "User input is required"))
            /\ pc' = "responded"
            /\ UNCHANGED apiCalls
       ELSE /\ apiCalls' = apiCalls + 1
            /\ pc' = "completion"
            /\ UNCHANGED responses
    /\ UNCHANGED <<completion, route, body, gqlCalls, graphqlQuery, raised, logs, args, query,
                   storeCalls, resolved, gqlReply>>

\* lines 175-214 after the await: the API call settles and generateGraphQLQuery ends
generateGraphQLQuery ==
    /\ pc = "completion"
    /\ \E o \in CompletionOutcomes :
          LET r == BridgeSettles(o)
          IN  /\ completion' = o
              /\ graphqlQuery' = r.value
              /\ raised' = r.raised
              /\ logs' = logs \o r.log
    /\ pc' = "bridged"
    /\ UNCHANGED <<route, body, apiCalls, gqlCalls, args, query, storeCalls,
                   resolved, gqlReply, responses>>

\* lines 159-167: no try around the await, so a throw leaves the request unanswered
generate_query_resume ==
    /\ pc = "bridged"
    /\ route = "/generate-query"
    /\ IF raised
       THEN /\ pc' = "unanswered"
            /\ UNCHANGED responses
       ELSE /\ pc' = "responded"
            /\ responses' = Append(responses,
                  IF Falsy(graphqlQuery)
                  THEN Response(500, "Failed to generate GraphQL query")
                  ELSE [status |-> 200, error |-> "", kind |-> "graphqlQuery"])
    /\ UNCHANGED <<completion, route, body, apiCalls, gqlCalls, graphqlQuery, raised, logs, args,
                   query, storeCalls, resolved, gqlReply>>

\* lines 226-241: 500 on a falsy query (or, from the catch, on a throw), else log
\* the query and post it to the /graphql endpoint
fetch_orders_resume ==
    /\ pc = "bridged"
    /\ route = "/fetch-orders"
    /\ IF raised
       THEN /\ logs' = Append(logs, "Error in fetching orders:")
            /\ responses' = Append(responses, Response(500, "Failed to fetch orders"))
            /\ pc' = "responded"
            /\ UNCHANGED gqlCalls
       ELSE IF Falsy(graphqlQuery)
       THEN /\ responses' = Append(responses,
                                   Response(500, "Failed to generate GraphQL query"))
            /\ pc' = "responded"
            /\ UNCHANGED <<gqlCalls, logs>>
       ELSE /\ logs' = Append(logs, "Generated GraphQL Query:")
            /\ gqlCalls' = gqlCalls + 1
            /\ pc' = "selfcall"
            /\ UNCHANGED responses
    /\ UNCHANGED <<completion, route, body, apiCalls, graphqlQuery, raised, args, query,
                   storeCalls, resolved, gqlReply>>

(***************************************************************************)
(* The /graphql endpoint as /fetch-orders calls it, lines 143-150, 235-241.*)
(***************************************************************************)
\* a document is no GraphQL when it is blank or holds a backtick
NotGraphql(t) == \A i \in DOMAIN t : IsSpace(t[i]) \/ t[i] = Backtick
HasBacktick(t) == \E i \in DOMAIN t : t[i] = Backtick

\* the argument objects a generated document may call orders with
FetchArgs ==
    { EmptyObj,
      "filter" :> EmptyObj,
      "filter" :> ("status" :> {"shipped"}),
      "filter" :> ("client_name" :> <<"a">>),
      "filter" :> ("created_at_end" :> IsoDate(1)),
      "filter" :> (("created_at_start" :> IsoDate(1)) @@ ("created_at_end" :> IsoDate(MaxDay))),
      "filter" :> ("closed_at_start" :> NotADate) }

\* the POST never reaches the endpoint: axios.post rejects
selfcall_fails ==
    /\ pc = "selfcall"
    /\ gqlReply' = [NoReply EXCEPT !.status = 0]
    /\ pc' = "replied"
    /\ UNCHANGED <<completion, route, body, apiCalls, gqlCalls, graphqlQuery, raised, logs, args,
                   query, storeCalls, resolved, responses>>

\* the document does not parse or validate: 400 with an errors envelope
graphql_rejects ==
    /\ pc = "selfcall"
    /\ gqlReply' = [status |-> 400, errors |-> TRUE, hasOrders |-> FALSE, orders |-> {}]
    /\ pc' = "replied"
    /\ UNCHANGED <<completion, route, body, apiCalls, gqlCalls, graphqlQuery, raised, logs, args,
                   query, storeCalls, resolved, responses>>

\* the document is valid and calls orders: the resolver runs with its arguments
graphql_executes ==
    /\ pc = "selfcall"
    /\ ~NotGraphql(graphqlQuery.text)
    /\ ~HasBacktick(graphqlQuery.text)
    /\ args' \in FetchArgs
    /\ pc' = "resolve"
    /\ UNCHANGED <<completion, route, body, apiCalls, gqlCalls, graphqlQuery, raised, logs,
                   query, storeCalls, resolved, gqlReply, responses>>

\* lines 235-248: axios.post rejects on a failed or non-2xx reply and the catch
\* answers 500; any 2xx reply is relayed as { data: response.data }
fetch_orders_relay ==
    /\ pc = "replied"
    /\ route = "/fetch-orders"
    /\ IF gqlReply.status \in 200..299
       THEN /\ responses' = Append(responses,
                                   [status |-> 200, error |-> "", kind |-> "data"])
            /\ UNCHANGED logs
       ELSE /\ logs' = Append(logs, "Error in fetching orders:")
            /\ responses' = Append(responses, Response(500, "Failed to fetch orders"))
    /\ pc' = "responded"
    /\ UNCHANGED <<completion, route, body, apiCalls, gqlCalls, graphqlQuery, raised, args, query,
                   storeCalls, resolved, gqlReply>>

(***************************************************************************)
(* Properties of generateGraphQLQuery and of the two handlers, checked     *)
(* under Spec.                                                             *)
(***************************************************************************)
\* generateGraphQLQuery has ended
Bridged == pc \notin {"start", "completion"}

UserInputGiven == Has(body, "userInput") /\ body["userInput"] # ""

HasFence(t) == \E i \in 1..(Len(t) - 2) : SubSeq(t, i, i + 2) = Fence

HasLineBreak(t) == \E i \in DOMAIN t : t[i] = "\n"

IsBlank(t) == \A i \in DOMAIN t : IsSpace(t[i])

\* C6: whatever text the completion API returns, the string
\* generateGraphQLQuery returns holds no fence marker and no line break and
\* neither starts nor ends with whitespace.
C6_SanitizedSingleLine ==
    (Bridged /\ completion.kind = "text") =>
        /\ ~graphqlQuery.null
        /\ ~HasFence(graphqlQuery.text)
        /\ ~HasLineBreak(graphqlQuery.text)
        /\ graphqlQuery.text # <<>> =>
              /\ ~IsSpace(Head(graphqlQuery.text))
              /\ ~IsSpace(graphqlQuery.text[Len(graphqlQuery.text)])

\* C7: generateGraphQLQuery never throws to its caller; when the call to the
\* completion API fails or the response lacks the text, it logs the failure
\* and returns null; one request is made per call, never a second.
C7_BridgeNeverRaises ==
    /\ ~raised
    /\ apiCalls <= 1
    /\ Bridged /\ UserInputGiven => apiCalls = 1
    /\ (Bridged /\ completion.kind \in {"transport", "api", "nopath"}) =>
          /\ graphqlQuery = NullQuery
          /\ \E i \in DOMAIN logs : logs[i] = "Error generating GraphQL query:"

\* C7 witness: the transport failed and generateGraphQLQuery returned null
C7_Witness ==
    /\ pc = "bridged"
    /\ completion.kind = "transport"
    /\ graphqlQuery.null
    /\ apiCalls = 1

\* C8: on both routes, a body without userInput is answered 400 with
\* { error: "User input is required" } before any work: no call to the
\* completion API, none to the GraphQL endpoint, and exactly one response.
C8_MissingInputFailsFast ==
    ~Has(body, "userInput") =>
        /\ apiCalls = 0
        /\ gqlCalls = 0
        /\ pc \in {"start", "responded"}
        /\ pc = "start" => responses = <<>>
        /\ pc = "responded" => responses = <<Response(400, "User input is required")>>

\* C8 witness: /fetch-orders has answered a body without userInput
C8_Witness ==
    /\ route = "/fetch-orders"
    /\ ~Has(body, "userInput")
    /\ pc = "responded"
    /\ Len(responses) = 1

\* the bridge failed or gave nothing usable: null, empty or blank
Unusable(g) == g.null \/ IsBlank(g.text)

\* C9: /generate-query with userInput answers 500 with an error exactly when
\* the bridge failed or returned unusable content, and otherwise 200 with a
\* query that is not empty or blank.
C9_GenerateQueryNeverBlank ==
    (route = "/generate-query" /\ UserInputGiven /\ pc = "responded") =>
        /\ Len(responses) = 1
        /\ \/ responses[1].status = 500 /\ responses[1].error # ""
           \/ responses[1].status = 200 /\ responses[1].kind = "graphqlQuery"
        /\ responses[1].status = 500 <=> Unusable(graphqlQuery)

\* the execution of the generated query failed
ExecutionFailed == gqlReply.status \notin 200..299 \/ gqlReply.errors

\* C10: /fetch-orders with userInput calls the GraphQL endpoint only after the
\* bridge returned a query string, answers 500 with an error whenever the
\* bridge failed or the execution failed (a failure raised inside the orders
\* resolver included), and answers 200 only for an execution that succeeded.
C10_FetchOrdersFailuresAre500 ==
    (route = "/fetch-orders" /\ UserInputGiven) =>
        /\ gqlCalls > 0 => (Bridged /\ ~Falsy(graphqlQuery))
        /\ pc = "responded" =>
              /\ Len(responses) = 1
              /\ (Falsy(graphqlQuery) \/ ExecutionFailed) =>
                    (responses[1].status = 500 /\ responses[1].error # "")
              /\ responses[1].status = 200 =>
                    (gqlCalls = 1 /\ ~ExecutionFailed /\ gqlReply.hasOrders)

\* a POST /generate-query or POST /fetch-orders request arrives
Init ==
    /\ route \in {"/generate-query", "/fetch-orders"}
    /\ body \in Bodies
    /\ pc = "start"
    /\ apiCalls = 0
    /\ gqlCalls = 0
    /\ completion = NoCompletion
    /\ graphqlQuery = NullQuery
    /\ raised = FALSE
    /\ logs = <<>>
    /\ args = EmptyObj
    /\ query = EmptyObj
    /\ storeCalls = <<>>
    /\ resolved = Pending
    /\ gqlReply = NoReply
    /\ responses = <<>>

Next ==
    \/ generate_query_handler
    \/ fetch_orders_handler
    \/ generateGraphQLQuery
    \/ generate_query_resume
    \/ fetch_orders_resume
    \/ selfcall_fails
    \/ graphql_rejects
    \/ graphql_executes
    \/ orders_call
    \/ find_returns
    \/ find_fails
    \/ graphql_reply
    \/ fetch_orders_relay

Spec == Init /\ [][Next]_vars

====
